---- MODULE Spec2Model ----
(***************************************************************************)
(* native_crypto/src/crypto.c: the four AEAD operations                    *)
(*   encrypt_aes_gcm_256, decrypt_aes_gcm_256,                             *)
(*   encrypt_chacha20_poly1305, decrypt_chacha20_poly1305                  *)
(* as a state machine.  One call is in progress at a time; `call` is its   *)
(* stack frame (arguments, locals, position), `errq` is the library's      *)
(* error queue, `err_out` is what handle_boringssl_errors printed during   *)
(* the call, and `sealed` is the last message the caller got back from a   *)
(* successful encrypt (what a later decrypt is fed, intact or tampered).   *)
(*                                                                         *)
(* The EVP_AEAD_* primitives live in the library behind <openssl/aead.h>,  *)
(* not in this repository.  They are modelled by their contract: a         *)
(* length-preserving cipher followed by a 16-byte tag over key, nonce,     *)
(* AAD and ciphertext; a failing seal/open zeroes max_out_len bytes of the *)
(* output and sets *out_len to 0; a failed init leaves the context empty   *)
(* so that cleanup on it is a no-op.  Whether init or seal fails for a     *)
(* reason internal to the library is an input of the call (`engine`).      *)
(***************************************************************************)
EXTENDS Integers, Sequences, FiniteSets, Bags, TLC

\* ------------------------------------------------------------------ bounds
\* Longest plaintext the caller encrypts.
MaxPlainLen == 2
\* Longest AAD the caller binds.
MaxAadLen == 1

\* ------------------------------------------------- constants of the program
\* "AES-256-GCM requires a 32-byte (256-bit) key": the value the code compares
\* EVP_AEAD_key_length() against, and the value that function returns.
KEY_LEN == 32
\* "GCM standard nonce size is 12 bytes": the value nonce_len is compared to.
NONCE_LEN == 12
\* The tag the library appends: EVP_AEAD_max_overhead() of both algorithms
\* ("plaintext_len + 16 bytes (for the tag)").
TAG_LEN == 16
\* The macro of <openssl/aead.h>: "a magic value that can be passed to
\* EVP_AEAD_CTX_init to indicate that the default tag length for an AEAD
\* should be used".  Its value is 0, not the tag length.
EVP_AEAD_DEFAULT_TAG_LENGTH == 0

Algs == {"aes_256_gcm", "chacha20_poly1305"}

EVP_AEAD_key_length(alg) == KEY_LEN
EVP_AEAD_max_overhead(alg) == TAG_LEN

\* ------------------------------------------------------------ byte strings
Zeros(n) == [i \in 1..n |-> 0]
Prefix(s, n) == SubSeq(s, 1, n)

\* One bit of one byte inverted.
FlipBit(x, b) == IF (x \div (2 ^ b)) % 2 = 0 THEN x + 2 ^ b ELSE x - 2 ^ b
FlipAt(s, i, b) == [s EXCEPT ![i] = FlipBit(s[i], b)]

\* s and t are equally long and differ in exactly one bit.
OneBitApart(s, t) ==
    /\ Len(s) = Len(t)
    /\ \E i \in 1..Len(s) : \E b \in 0..7 : t = FlipAt(s, i, b)

\* The sum of the bytes of s (as the size of the bag with s[i] + 1 copies of i).
SumSeq(s) == BagCardinality([i \in 1..Len(s) |-> s[i] + 1]) - Len(s)

\* A caller's buffer: a pointer (possibly NULL) and the bytes behind it.
\* overrun records a write past the end of the bytes the caller provided.
NullPtr == [null |-> TRUE, mem |-> <<>>, overrun |-> FALSE]
Buf(bytes) == [null |-> FALSE, mem |-> bytes, overrun |-> FALSE]

\* memset/memcpy of `bytes` to the start of buffer b.
MemWrite(b, bytes) ==
    [b EXCEPT !.mem = [i \in 1..Len(b.mem) |->
                          IF i <= Len(bytes) THEN bytes[i] ELSE b.mem[i]],
              !.overrun = b.overrun \/ Len(bytes) > Len(b.mem)]

\* ------------------------------------------------- the library's primitives
\* The cipher: a keystream derived from algorithm, key and nonce, added to
\* the plaintext byte by byte (length-preserving) and subtracted again.
AlgSalt(alg) == IF alg = "aes_256_gcm" THEN 17 ELSE 91
KeyStream(alg, key, nonce, i) ==
    (SumSeq(key) + 3 * SumSeq(nonce) + 7 * i + AlgSalt(alg)) % 256
Encipher(alg, key, nonce, p) ==
    [i \in 1..Len(p) |-> (p[i] + KeyStream(alg, key, nonce, i)) % 256]
Decipher(alg, key, nonce, c) ==
    [i \in 1..Len(c) |-> (c[i] + 256 - KeyStream(alg, key, nonce, i)) % 256]

\* The authenticator: a position-weighted checksum modulo a prime of
\* key || nonce || len(aad) || aad || len(ct) || ct, serialised into the
\* 16 bytes of the tag.  A change of one byte at position i changes the
\* value by delta * i, which is not a multiple of the prime.
MacP == 32749
Checksum(m) == BagCardinality([i \in 1..Len(m) |-> (m[i] + 1) * i])
Mac(alg, key, nonce, aad, ct) ==
    LET t == (AlgSalt(alg) + Checksum(key \o nonce \o <<Len(aad)>> \o aad
                                       \o <<Len(ct)>> \o ct)) % MacP
    IN  <<t % 256, t \div 256>> \o Zeros(TAG_LEN - 2)

\* Nonce sizes the algorithms take: ChaCha20-Poly1305 only 12 bytes,
\* AES-GCM any non-empty nonce.
NonceAccepted(alg, nonce_len) ==
    IF alg = "chacha20_poly1305" THEN nonce_len = 12 ELSE nonce_len > 0

\* EVP_AEAD_CTX_init: fails when the key length is not the algorithm's, or
\* for a reason internal to the library.  On failure the context is left
\* empty (ctx->aead = NULL).
EVP_AEAD_CTX_init(alg, key_len, tag_len, engine) ==
    /\ key_len = EVP_AEAD_key_length(alg)
    /\ tag_len \in {EVP_AEAD_DEFAULT_TAG_LENGTH, TAG_LEN}
    /\ engine # "init_fails"

\* EVP_AEAD_CTX_seal: [ok, out_len, data].  On success data is
\* ciphertext || tag and out_len its length; on failure data is max_out_len
\* zero bytes (the library zeroes the output) and out_len is 0.
EVP_AEAD_CTX_seal(alg, key, max_out_len, nonce, nonce_len, in, in_len, aad, engine) ==
    LET ct == Encipher(alg, key, nonce, in)
    IN  IF /\ engine # "op_fails"
           /\ max_out_len >= in_len + TAG_LEN
           /\ NonceAccepted(alg, nonce_len)
        THEN [ok |-> TRUE, out_len |-> in_len + TAG_LEN,
              data |-> ct \o Mac(alg, key, nonce, aad, ct)]
        ELSE [ok |-> FALSE, out_len |-> 0, data |-> Zeros(max_out_len)]

\* EVP_AEAD_CTX_open: [ok, out_len, data].  Fails when the input is shorter
\* than the tag, the output bound is too small, the nonce size is not the
\* algorithm's, or the tag does not verify.
EVP_AEAD_CTX_open(alg, key, max_out_len, nonce, nonce_len, in, in_len, aad, engine) ==
    IF /\ engine # "op_fails"
       /\ in_len >= TAG_LEN
       /\ max_out_len >= in_len - TAG_LEN
       /\ NonceAccepted(alg, nonce_len)
       /\ SubSeq(in, in_len - TAG_LEN + 1, in_len)
             = Mac(alg, key, nonce, aad, Prefix(in, in_len - TAG_LEN))
    THEN [ok |-> TRUE, out_len |-> in_len - TAG_LEN,
          data |-> Decipher(alg, key, nonce, Prefix(in, in_len - TAG_LEN))]
    ELSE [ok |-> FALSE, out_len |-> 0, data |-> Zeros(max_out_len)]

\* EVP_AEAD_CTX_cleanup: releases a live context; a no-op on an empty one.
EVP_AEAD_CTX_cleanup(ctx) == IF ctx = "live" THEN "released" ELSE ctx


\* ------------------------------------------------------------------- state
VARIABLES
    call,       \* the frame of the call in progress (or of the last one)
    errq,       \* the library's error queue (ERR_get_error pops its head)
    err_out,    \* lines handle_boringssl_errors wrote to stderr in this call
    sealed,     \* the last message a successful encrypt returned
    conc,       \* concurrent calls: one frame, context slot and error queue
                \* per thread, and the stderr they share
    wide        \* a call followed through its length arithmetic alone, with
                \* lengths of the full width of size_t

vars == <<call, errq, err_out, sealed, conc, wide>>

\* The threads that call the operations concurrently.
Threads == {1, 2}

\* The frame before the first call.
NoCall ==
    [op |-> "encrypt", alg |-> "aes_256_gcm",
     in |-> NullPtr, in_len |-> 0, key |-> NullPtr,
     nonce |-> NullPtr, nonce_len |-> 0, aad |-> NullPtr, aad_len |-> 0,
     out |-> NullPtr, out_entry |-> NullPtr, engine |-> "ok",
     ctx |-> "uninit", actual_out_len |-> 0, max_out_len |-> 0,
     result_status |-> 0, context_message |-> "", trace |-> <<>>,
     pc |-> "idle", ret |-> 0]

NoMessage ==
    [valid |-> FALSE, alg |-> "aes_256_gcm", plaintext |-> <<>>,
     key |-> <<>>, nonce |-> <<>>, aad |-> <<>>, out |-> <<>>]

\* No concurrent call yet: every thread's context slot holds stack garbage
\* and its error queue is empty.
NoConc ==
    [frame |-> [t \in Threads |-> NoCall],
     ctxmem |-> [t \in Threads |-> [state |-> "uninit", users |-> {}]],
     errq |-> [t \in Threads |-> <<>>],
     stderr |-> <<>>]

NoWide ==
    [op |-> "encrypt", len |-> <<0, 0, 0, 0>>, max_out_len |-> <<0, 0, 0, 0>>,
     actual_out_len |-> <<0, 0, 0, 0>>, ok |-> FALSE, pc |-> "idle", ret |-> 0]

Init ==
    /\ call = NoCall
    /\ errq = <<>>
    /\ err_out = <<>>
    /\ sealed = NoMessage
    /\ conc = NoConc
    /\ wide = NoWide

\* ------------------------------------------------ the steps of one function
\* Function entry: the declarations of the locals.  max_out_len is computed
\* before any argument is validated; result_status starts as -1.
Enter(op, alg, in, in_len, key, nonce, nonce_len, aad, aad_len, out, engine) ==
    [op |-> op, alg |-> alg,
     in |-> in, in_len |-> in_len, key |-> key,
     nonce |-> nonce, nonce_len |-> nonce_len, aad |-> aad, aad_len |-> aad_len,
     out |-> out, out_entry |-> out, engine |-> engine,
     ctx |-> "uninit", actual_out_len |-> 0,
     max_out_len |-> IF op = "encrypt"
                     THEN in_len + EVP_AEAD_max_overhead(alg)
                     ELSE in_len,
     result_status |-> -1, context_message |-> "", trace |-> <<>>,
     pc |-> "validate", ret |-> 0]

\* `return v;`
Return(f, v) == [f EXCEPT !.pc = "returned", !.ret = v]

\* ValidateEncrypt without the nonce-length check.
ValidateEncrypt_NoNonceCheck(f) ==
    IF f.in.null \/ f.key.null \/ f.nonce.null \/ f.out.null THEN Return(f, -1)
    ELSE IF EVP_AEAD_key_length(f.alg) # 32 THEN Return(f, -1)
    ELSE [f EXCEPT !.pc = "init"]

\* ValidateEncrypt treating the associated data as a required pointer.
ValidateEncrypt_AadRequired(f) ==
    IF f.in.null \/ f.key.null \/ f.nonce.null \/ f.aad.null \/ f.out.null THEN Return(f, -1)
    ELSE IF EVP_AEAD_key_length(f.alg) # 32 THEN Return(f, -1)
    ELSE IF f.nonce_len # 12 THEN Return(f, -1)
    ELSE [f EXCEPT !.pc = "init"]

\* "--- Parameter Validation ---" of the two encrypt functions.
ValidateEncrypt(f) ==
    IF f.in.null \/ f.key.null \/ f.nonce.null \/ f.out.null THEN Return(f, -1)
    ELSE IF EVP_AEAD_key_length(f.alg) # 32 THEN Return(f, -1)
    ELSE IF f.nonce_len # 12 THEN Return(f, -1)
    ELSE [f EXCEPT !.pc = "init"]

\* ValidateDecrypt without the nonce-length check.
ValidateDecrypt_NoNonceCheck(f) ==
    IF f.in.null \/ f.key.null \/ f.nonce.null \/ f.out.null THEN Return(f, -1)
    ELSE IF EVP_AEAD_key_length(f.alg) # 32 THEN Return(f, -1)
    ELSE IF f.in_len < EVP_AEAD_DEFAULT_TAG_LENGTH THEN Return(f, -2)
    ELSE [f EXCEPT !.pc = "init"]

\* ValidateDecrypt with a 16-byte short-input check moved to the front.
ValidateDecrypt_ShortFirst(f) ==
    IF f.in_len < TAG_LEN THEN Return(f, -2)
    ELSE IF f.in.null \/ f.key.null \/ f.nonce.null \/ f.out.null THEN Return(f, -1)
    ELSE IF EVP_AEAD_key_length(f.alg) # 32 THEN Return(f, -1)
    ELSE IF f.nonce_len # 12 THEN Return(f, -1)
    ELSE [f EXCEPT !.pc = "init"]

\* "--- Parameter Validation ---" of the two decrypt functions.
ValidateDecrypt(f) ==
    IF f.in.null \/ f.key.null \/ f.nonce.null \/ f.out.null THEN Return(f, -1)
    ELSE IF EVP_AEAD_key_length(f.alg) # 32 THEN Return(f, -1)
    ELSE IF f.nonce_len # 12 THEN Return(f, -1)
    ELSE IF f.in_len < EVP_AEAD_DEFAULT_TAG_LENGTH THEN Return(f, -2)
    ELSE [f EXCEPT !.pc = "init"]

\* CtxInit reporting a failed initialisation as -2.
CtxInit_FailsAsAuth(f) ==
    IF EVP_AEAD_CTX_init(f.alg, EVP_AEAD_key_length(f.alg),
                         EVP_AEAD_DEFAULT_TAG_LENGTH, f.engine)
    THEN [f EXCEPT !.trace = Append(@, "init"), !.ctx = "live",
                   !.pc = IF f.op = "encrypt" THEN "seal" ELSE "open"]
    ELSE [f EXCEPT !.trace = Append(@, "init"), !.ctx = "empty",
                   !.context_message = "EVP_AEAD_CTX_init",
                   !.result_status = -2,
                   !.pc = "errors"]

\* "--- AEAD Context Initialization ---": on failure the errors are printed
\* and control jumps to the cleanup label with result_status still -1.
CtxInit(f) ==
    IF EVP_AEAD_CTX_init(f.alg, EVP_AEAD_key_length(f.alg),
                         EVP_AEAD_DEFAULT_TAG_LENGTH, f.engine)
    THEN [f EXCEPT !.trace = Append(@, "init"), !.ctx = "live",
                   !.pc = IF f.op = "encrypt" THEN "seal" ELSE "open"]
    ELSE [f EXCEPT !.trace = Append(@, "init"), !.ctx = "empty",
                   !.context_message = "EVP_AEAD_CTX_init",
                   !.pc = "errors"]

\* Seal with the AAD arguments dropped (aad_len passed as 0).
Seal_WithoutAad(f) ==
    LET r == EVP_AEAD_CTX_seal(f.alg, f.key.mem, f.max_out_len,
                               f.nonce.mem, f.nonce_len, f.in.mem, f.in_len,
                               <<>>, f.engine)
    IN  IF r.ok
        THEN [f EXCEPT !.trace = Append(@, "seal"),
                       !.out = MemWrite(@, r.data),
                       !.actual_out_len = r.out_len,
                       !.result_status = r.out_len,
                       !.pc = "cleanup"]
        ELSE [f EXCEPT !.trace = Append(@, "seal"),
                       !.out = MemWrite(@, r.data),
                       !.actual_out_len = r.out_len,
                       !.context_message = "EVP_AEAD_CTX_seal",
                       !.pc = "errors"]

\* "--- Encryption (Seal Operation) ---".
Seal(f) ==
    LET r == EVP_AEAD_CTX_seal(f.alg, f.key.mem, f.max_out_len,
                               f.nonce.mem, f.nonce_len, f.in.mem, f.in_len,
                               f.aad.mem, f.engine)
    IN  IF r.ok
        THEN [f EXCEPT !.trace = Append(@, "seal"),
                       !.out = MemWrite(@, r.data),
                       !.actual_out_len = r.out_len,
                       !.result_status = r.out_len,
                       !.pc = "cleanup"]
        ELSE [f EXCEPT !.trace = Append(@, "seal"),
                       !.out = MemWrite(@, r.data),
                       !.actual_out_len = r.out_len,
                       !.context_message = "EVP_AEAD_CTX_seal",
                       !.pc = "errors"]

\* Open returning the output bound (max_out_len) instead of the length the
\* primitive reported.
Open_ReturnsBound(f) ==
    LET r == EVP_AEAD_CTX_open(f.alg, f.key.mem, f.max_out_len,
                               f.nonce.mem, f.nonce_len, f.in.mem, f.in_len,
                               f.aad.mem, f.engine)
    IN  IF r.ok
        THEN [f EXCEPT !.trace = Append(@, "open"),
                       !.out = MemWrite(@, r.data),
                       !.actual_out_len = r.out_len,
                       !.result_status = f.max_out_len,
                       !.pc = "cleanup"]
        ELSE [f EXCEPT !.trace = Append(@, "open"),
                       !.out = MemWrite(@, r.data),
                       !.actual_out_len = r.out_len,
                       !.context_message = "EVP_AEAD_CTX_open",
                       !.pc = "errors"]

\* Open deciphering into the output before the tag is verified and leaving
\* the bytes there when verification fails.
Open_LeavesPlaintext(f) ==
    LET r == EVP_AEAD_CTX_open(f.alg, f.key.mem, f.max_out_len,
                               f.nonce.mem, f.nonce_len, f.in.mem, f.in_len,
                               f.aad.mem, f.engine)
        early == Decipher(f.alg, f.key.mem, f.nonce.mem,
                          Prefix(f.in.mem, Len(f.out.mem)))
    IN  IF r.ok
        THEN [f EXCEPT !.trace = Append(@, "open"),
                       !.out = MemWrite(@, r.data),
                       !.actual_out_len = r.out_len,
                       !.result_status = r.out_len,
                       !.pc = "cleanup"]
        ELSE [f EXCEPT !.trace = Append(@, "open"),
                       !.out = MemWrite(@, early),
                       !.actual_out_len = r.out_len,
                       !.context_message = "EVP_AEAD_CTX_open",
                       !.pc = "errors"]

\* "--- Decryption (Open Operation) ---".
Open(f) ==
    LET r == EVP_AEAD_CTX_open(f.alg, f.key.mem, f.max_out_len,
                               f.nonce.mem, f.nonce_len, f.in.mem, f.in_len,
                               f.aad.mem, f.engine)
    IN  IF r.ok
        THEN [f EXCEPT !.trace = Append(@, "open"),
                       !.out = MemWrite(@, r.data),
                       !.actual_out_len = r.out_len,
                       !.result_status = r.out_len,
                       !.pc = "cleanup"]
        ELSE [f EXCEPT !.trace = Append(@, "open"),
                       !.out = MemWrite(@, r.data),
                       !.actual_out_len = r.out_len,
                       !.context_message = "EVP_AEAD_CTX_open",
                       !.pc = "errors"]

\* AfterErrors with the open site's `result_status = -2` missing.
AfterErrors_KeepsStatus(f) == [f EXCEPT !.pc = "cleanup"]

\* AfterErrors with `result_status = -2` at every failure site.
AfterErrors_AlwaysAuthFailure(f) ==
    [f EXCEPT !.result_status = -2, !.pc = "cleanup"]

\* handle_boringssl_errors that never comes back to its caller.
AfterErrors_Spins(f) == f

\* What follows the call of handle_boringssl_errors at each failure site:
\* the open site sets result_status = -2, the others leave it; all jump to
\* the cleanup label.
AfterErrors(f) ==
    [f EXCEPT !.result_status =
                  IF f.context_message = "EVP_AEAD_CTX_open" THEN -2 ELSE @,
              !.pc = "cleanup"]

\* Cleanup that returns without releasing the context.
Cleanup_NoRelease(f) == Return(f, f.result_status)

\* The cleanup label: EVP_AEAD_CTX_cleanup(&ctx); return result_status;
Cleanup(f) ==
    Return([f EXCEPT !.trace = Append(@, "cleanup"),
                     !.ctx = EVP_AEAD_CTX_cleanup(@)],
           f.result_status)


\* ------------------------------------------------------ the caller's inputs
\* The plaintext and AAD of a given length, the key and the nonce the caller
\* encrypts with (32 zero bytes, zero bytes), and the filler an output
\* buffer holds before the call.
Plaintext(n) == [i \in 1..n |-> 100 + i]
AadBytes(n) == [i \in 1..n |-> 6 + i]
ZeroKey == Zeros(KEY_LEN)
Nonce(n) == Zeros(n)
Fill(n) == [i \in 1..n |-> 170]

NonceLens == {NONCE_LEN - 1, NONCE_LEN, NONCE_LEN + 1}
\* aad may be NULL when aad_len is 0.
AadChoices == {NullPtr} \cup {Buf(AadBytes(k)) : k \in 0..MaxAadLen}
\* Which required pointer, if any, the caller passes as NULL.
NullChoices == {"none", "in", "key", "nonce", "out"}
\* How the library behaves during the call.
Engines == {"ok", "init_fails", "op_fails"}

Arg(np, which, buf) == IF np = which THEN NullPtr ELSE buf

\* A nonce of another length: truncated or zero-extended.
Resize(nonce, n) ==
    IF n <= Len(nonce) THEN Prefix(nonce, n) ELSE nonce \o Zeros(n - Len(nonce))

FlipBits == {0, 7}
\* What a caller may hand to decrypt in place of the sealed message s:
\* the message itself, or one of its parts changed.
DecryptVariants(s) ==
    LET intact == [ct |-> s.out, key |-> s.key, nonce |-> s.nonce,
                   aad |-> Buf(s.aad)]
        n == Len(s.out)
    IN  {intact}
        \cup {[intact EXCEPT !.ct = FlipAt(s.out, i, b)] :
                 i \in {1, n - TAG_LEN, n - TAG_LEN + 1, n} \cap 1..n,
                 b \in FlipBits}
        \cup {[intact EXCEPT !.ct = Prefix(s.out, m)] :
                 m \in {0, TAG_LEN - 1, n - 1} \cap 0..(n - 1)}
        \cup {[intact EXCEPT !.key = FlipAt(s.key, 1, 0)],
              [intact EXCEPT !.key = FlipAt(s.key, KEY_LEN, 7)]}
        \cup {[intact EXCEPT !.nonce = FlipAt(s.nonce, NONCE_LEN, 0)],
              [intact EXCEPT !.nonce = FlipAt(s.nonce, 1, 7)]}
        \cup {[intact EXCEPT !.aad = Buf(FlipAt(s.aad, i, 0))] :
                 i \in 1..Len(s.aad)}
        \cup {[intact EXCEPT !.aad = Buf(Append(s.aad, 0))]}
        \cup (IF s.aad = <<>> THEN {[intact EXCEPT !.aad = NullPtr]} ELSE {})

\* ----------------------------------------------------------------- actions
\* A call of an encrypt function: entry and parameter validation.
CallEncrypt(alg) ==
    /\ call.pc = "idle"
    /\ \E n \in 0..MaxPlainLen, nl \in NonceLens, aad \in AadChoices,
          np \in NullChoices, engine \in Engines :
          call' = ValidateEncrypt(
                      Enter("encrypt", alg,
                            Arg(np, "in", Buf(Plaintext(n))), n,
                            Arg(np, "key", Buf(ZeroKey)),
                            Arg(np, "nonce", Buf(Nonce(nl))), nl,
                            aad, Len(aad.mem),
                            Arg(np, "out", Buf(Fill(n + TAG_LEN))),
                            engine))
    /\ UNCHANGED <<errq, err_out, sealed>>
    /\ UNCHANGED <<conc, wide>>

\* A call of a decrypt function on the sealed message or a variant of it;
\* the output buffer has the documented capacity, ciphertext_tag_len - 16.
CallDecrypt(alg) ==
    /\ call.pc = "idle"
    /\ sealed.valid
    /\ sealed.alg = alg
    /\ \E v \in DecryptVariants(sealed), nl \in NonceLens,
          np \in NullChoices, engine \in Engines :
          LET cap == IF Len(v.ct) >= TAG_LEN THEN Len(v.ct) - TAG_LEN ELSE 0
          IN  call' = ValidateDecrypt(
                          Enter("decrypt", alg,
                                Arg(np, "in", Buf(v.ct)), Len(v.ct),
                                Arg(np, "key", Buf(v.key)),
                                Arg(np, "nonce", Buf(Resize(v.nonce, nl))), nl,
                                v.aad, Len(v.aad.mem),
                                Arg(np, "out", Buf(Fill(cap))),
                                engine))
    /\ UNCHANGED <<errq, err_out, sealed>>
    /\ UNCHANGED <<conc, wide>>

encrypt_aes_gcm_256 == CallEncrypt("aes_256_gcm")
decrypt_aes_gcm_256 == CallDecrypt("aes_256_gcm")
encrypt_chacha20_poly1305 == CallEncrypt("chacha20_poly1305")
decrypt_chacha20_poly1305 == CallDecrypt("chacha20_poly1305")

\* A failing primitive puts an error on the library's queue.
Raise(f) == IF f.pc = "errors" THEN Append(errq, f.context_message) ELSE errq

StepInit ==
    /\ call.pc = "init"
    /\ call' = CtxInit(call)
    /\ errq' = Raise(call')
    /\ UNCHANGED <<err_out, sealed>>
    /\ UNCHANGED <<conc, wide>>

StepSeal ==
    /\ call.pc = "seal"
    /\ call' = Seal(call)
    /\ errq' = Raise(call')
    /\ UNCHANGED <<err_out, sealed>>
    /\ UNCHANGED <<conc, wide>>

StepOpen ==
    /\ call.pc = "open"
    /\ call' = Open(call)
    /\ errq' = Raise(call')
    /\ UNCHANGED <<err_out, sealed>>
    /\ UNCHANGED <<conc, wide>>

\* handle_boringssl_errors: the context line, ...
handle_boringssl_errors ==
    /\ call.pc = "errors"
    /\ err_out' = Append(err_out, call.context_message)
    /\ call' = [call EXCEPT !.pc = "drain"]
    /\ UNCHANGED <<errq, sealed>>
    /\ UNCHANGED <<conc, wide>>

\* ... then one line per queued error while ERR_get_error() != 0, ...
DrainError ==
    /\ call.pc = "drain"
    /\ errq # <<>>
    /\ err_out' = Append(err_out, "- " \o Head(errq))
    /\ errq' = Tail(errq)
    /\ UNCHANGED <<call, sealed>>
    /\ UNCHANGED <<conc, wide>>

\* ... and back in the function once the queue is empty.
DrainDone ==
    /\ call.pc = "drain"
    /\ errq = <<>>
    /\ call' = AfterErrors(call)
    /\ UNCHANGED <<errq, err_out, sealed>>
    /\ UNCHANGED <<conc, wide>>

\* The cleanup label and the return.  The caller keeps what a successful
\* encrypt wrote.
StepCleanup ==
    /\ call.pc = "cleanup"
    /\ call' = Cleanup(call)
    /\ sealed' = IF call.op = "encrypt" /\ call'.ret >= 0
                 THEN [valid |-> TRUE, alg |-> call.alg,
                       plaintext |-> call.in.mem, key |-> call.key.mem,
                       nonce |-> call.nonce.mem, aad |-> call.aad.mem,
                       out |-> Prefix(call.out.mem, call'.ret)]
                 ELSE sealed
    /\ UNCHANGED <<errq, err_out>>
    /\ UNCHANGED <<conc, wide>>

\* The caller has taken the return value; the frame is gone.
Resume ==
    /\ call.pc = "returned"
    /\ call' = NoCall
    /\ err_out' = <<>>
    /\ UNCHANGED <<errq, sealed>>
    /\ UNCHANGED <<conc, wide>>

Next ==
    \/ encrypt_aes_gcm_256
    \/ decrypt_aes_gcm_256
    \/ encrypt_chacha20_poly1305
    \/ decrypt_chacha20_poly1305
    \/ StepInit
    \/ StepSeal
    \/ StepOpen
    \/ handle_boringssl_errors
    \/ DrainError
    \/ DrainDone
    \/ StepCleanup
    \/ Resume

Spec == Init /\ [][Next]_vars

TypeOK ==
    /\ call.pc \in {"idle", "init", "seal", "open", "errors", "drain",
                    "cleanup", "returned"}
    /\ call.ctx \in {"uninit", "live", "empty", "released"}
    /\ Len(errq) <= 1


\* A function that has been called runs on: each primitive returns, and
\* handle_boringssl_errors takes the next error off the queue, as long as
\* there is one.
Fairness ==
    /\ WF_vars(StepInit)
    /\ WF_vars(StepSeal)
    /\ WF_vars(StepOpen)
    /\ WF_vars(handle_boringssl_errors)
    /\ WF_vars(DrainError)
    /\ WF_vars(DrainDone)
    /\ WF_vars(StepCleanup)

SpecLive == Spec /\ Fairness

\* ------------------------------------------------- one call, run alone
Validate(e) == IF e.op = "encrypt" THEN ValidateEncrypt(e) ELSE ValidateDecrypt(e)

\* The frame a call had at entry: its arguments, and its locals as declared.
EntryOf(f) ==
    Enter(f.op, f.alg, f.in, f.in_len, f.key, f.nonce, f.nonce_len,
          f.aad, f.aad_len, f.out_entry, f.engine)

\* The frame at return of a call that runs from entry frame e with nothing
\* else running: validation, init, seal or open, the error report on a
\* failure, cleanup.
Solo(e) ==
    LET v == Validate(e)
        i == CtxInit(v)
        o == IF e.op = "encrypt" THEN Seal(i) ELSE Open(i)
    IN  IF v.pc = "returned" THEN v
        ELSE IF i.pc = "errors" THEN Cleanup(AfterErrors(i))
        ELSE IF o.pc = "errors" THEN Cleanup(AfterErrors(o))
        ELSE Cleanup(o)

\* ------------------------------------------- the four functions, one by one
\* Each function read on its own as a function of the nullness of its
\* pointers, its lengths and the outcomes of its primitive calls (a), giving
\* the value returned and the primitives called.
\* encrypt_aes_gcm_256, lines 45-92.
encrypt_aes_gcm_256_flow(a) ==
    IF a.in_null \/ a.key_null \/ a.nonce_null \/ a.out_null THEN [ret |-> -1, calls |-> <<>>]
    ELSE IF EVP_AEAD_key_length("aes_256_gcm") # 32 THEN [ret |-> -1, calls |-> <<>>]
    ELSE IF a.nonce_len # 12 THEN [ret |-> -1, calls |-> <<>>]
    ELSE IF ~a.init_ok THEN [ret |-> -1, calls |-> <<"init", "cleanup">>]
    ELSE IF ~a.op_ok THEN [ret |-> -1, calls |-> <<"init", "seal", "cleanup">>]
    ELSE [ret |-> a.out_len, calls |-> <<"init", "seal", "cleanup">>]

\* decrypt_aes_gcm_256, lines 110-156.
decrypt_aes_gcm_256_flow(a) ==
    IF a.in_null \/ a.key_null \/ a.nonce_null \/ a.out_null THEN [ret |-> -1, calls |-> <<>>]
    ELSE IF EVP_AEAD_key_length("aes_256_gcm") # 32 THEN [ret |-> -1, calls |-> <<>>]
    ELSE IF a.nonce_len # 12 THEN [ret |-> -1, calls |-> <<>>]
    ELSE IF a.in_len < EVP_AEAD_DEFAULT_TAG_LENGTH THEN [ret |-> -2, calls |-> <<>>]
    ELSE IF ~a.init_ok THEN [ret |-> -1, calls |-> <<"init", "cleanup">>]
    ELSE IF ~a.op_ok THEN [ret |-> -2, calls |-> <<"init", "open", "cleanup">>]
    ELSE [ret |-> a.out_len, calls |-> <<"init", "open", "cleanup">>]

\* encrypt_chacha20_poly1305 reporting a failed seal as -2.
encrypt_chacha20_poly1305_flow_SealAsAuth(a) ==
    IF a.in_null \/ a.key_null \/ a.nonce_null \/ a.out_null THEN [ret |-> -1, calls |-> <<>>]
    ELSE IF EVP_AEAD_key_length("chacha20_poly1305") # 32 THEN [ret |-> -1, calls |-> <<>>]
    ELSE IF a.nonce_len # 12 THEN [ret |-> -1, calls |-> <<>>]
    ELSE IF ~a.init_ok THEN [ret |-> -1, calls |-> <<"init", "cleanup">>]
    ELSE IF ~a.op_ok THEN [ret |-> -2, calls |-> <<"init", "seal", "cleanup">>]
    ELSE [ret |-> a.out_len, calls |-> <<"init", "seal", "cleanup">>]

\* encrypt_chacha20_poly1305, lines 174-212.
encrypt_chacha20_poly1305_flow(a) ==
    IF a.in_null \/ a.key_null \/ a.nonce_null \/ a.out_null THEN [ret |-> -1, calls |-> <<>>]
    ELSE IF EVP_AEAD_key_length("chacha20_poly1305") # 32 THEN [ret |-> -1, calls |-> <<>>]
    ELSE IF a.nonce_len # 12 THEN [ret |-> -1, calls |-> <<>>]
    ELSE IF ~a.init_ok THEN [ret |-> -1, calls |-> <<"init", "cleanup">>]
    ELSE IF ~a.op_ok THEN [ret |-> -1, calls |-> <<"init", "seal", "cleanup">>]
    ELSE [ret |-> a.out_len, calls |-> <<"init", "seal", "cleanup">>]

\* decrypt_chacha20_poly1305, lines 230-269.
decrypt_chacha20_poly1305_flow(a) ==
    IF a.in_null \/ a.key_null \/ a.nonce_null \/ a.out_null THEN [ret |-> -1, calls |-> <<>>]
    ELSE IF EVP_AEAD_key_length("chacha20_poly1305") # 32 THEN [ret |-> -1, calls |-> <<>>]
    ELSE IF a.nonce_len # 12 THEN [ret |-> -1, calls |-> <<>>]
    ELSE IF a.in_len < EVP_AEAD_DEFAULT_TAG_LENGTH THEN [ret |-> -2, calls |-> <<>>]
    ELSE IF ~a.init_ok THEN [ret |-> -1, calls |-> <<"init", "cleanup">>]
    ELSE IF ~a.op_ok THEN [ret |-> -2, calls |-> <<"init", "open", "cleanup">>]
    ELSE [ret |-> a.out_len, calls |-> <<"init", "open", "cleanup">>]

\* --------------------------------------------------------- concurrent calls
\* Each thread calls one operation on buffers of its own; the steps of the
\* threads interleave.  The context is the automatic variable `ctx` of the
\* function, so the slot it lives in is the calling thread's own stack; the
\* library's error queue is per thread; stderr is shared.

\* The context shared by all calls (as a `static EVP_AEAD_CTX ctx` would be).
CtxSlot_Static(t) == 1

\* Where the `EVP_AEAD_CTX ctx` of thread t's call lives.
CtxSlot(t) == t

\* A message sealed earlier with algorithm alg.
SealedMessage(alg) ==
    [valid |-> TRUE, alg |-> alg, plaintext |-> Plaintext(1), key |-> ZeroKey,
     nonce |-> Nonce(NONCE_LEN), aad |-> <<>>,
     out |-> EVP_AEAD_CTX_seal(alg, ZeroKey, 1 + TAG_LEN, Nonce(NONCE_LEN),
                               NONCE_LEN, Plaintext(1), 1, <<>>, "ok").data]

\* What a concurrent decrypt is handed: the sealed message, or the message
\* with one bit of the ciphertext, the tag, the key or the nonce changed, with
\* other associated data, or cut short.
ConcVariants(s) ==
    LET intact == [ct |-> s.out, key |-> s.key, nonce |-> s.nonce, aad |-> s.aad]
    IN  {intact,
         [intact EXCEPT !.ct = FlipAt(s.out, 1, 0)],
         [intact EXCEPT !.ct = FlipAt(s.out, Len(s.out), 7)],
         [intact EXCEPT !.key = FlipAt(s.key, KEY_LEN, 7)],
         [intact EXCEPT !.nonce = FlipAt(s.nonce, 1, 0)],
         [intact EXCEPT !.aad = Append(s.aad, 1)],
         [intact EXCEPT !.ct = Prefix(s.out, TAG_LEN - 1)]}

\* The entry frames of the calls a thread may make.
ConcCalls ==
    {Enter("encrypt", alg, Buf(Plaintext(1)), 1, Buf(ZeroKey),
           Arg(np, "nonce", Buf(Nonce(NONCE_LEN))), NONCE_LEN, Buf(<<>>), 0,
           Buf(Fill(1 + TAG_LEN)), engine) :
        alg \in Algs, np \in {"none", "nonce"}, engine \in Engines}
    \cup
    UNION {{Enter("decrypt", alg, Buf(v.ct), Len(v.ct), Buf(v.key),
                  Buf(v.nonce), NONCE_LEN, Buf(v.aad), Len(v.aad),
                  Buf(Fill(IF Len(v.ct) >= TAG_LEN
                           THEN Len(v.ct) - TAG_LEN ELSE 0)),
                  engine) :
               v \in ConcVariants(SealedMessage(alg)),
               engine \in {"ok", "init_fails"}} : alg \in Algs}

\* Thread t's frame with `ctx` read from the slot it lives in.
Loaded(t) ==
    [conc.frame[t] EXCEPT !.ctx = conc.ctxmem[CtxSlot(t)].state]

\* Thread t has taken a step that passed &ctx to the library and left its
\* frame as g.
Touched(t, g) ==
    [conc EXCEPT !.frame[t] = g,
                 !.ctxmem[CtxSlot(t)] =
                     [state |-> g.ctx, users |-> @.users \cup {t}],
                 !.errq[t] = IF g.pc = "errors"
                             THEN Append(@, g.context_message) ELSE @]

ConcCall(t) ==
    /\ conc.frame[t].pc = "idle"
    /\ \E e \in ConcCalls : conc' = [conc EXCEPT !.frame[t] = Validate(e)]
    /\ UNCHANGED <<call, errq, err_out, sealed, wide>>

ConcInit(t) ==
    /\ conc.frame[t].pc = "init"
    /\ conc' = Touched(t, CtxInit(Loaded(t)))
    /\ UNCHANGED <<call, errq, err_out, sealed, wide>>

ConcSeal(t) ==
    /\ conc.frame[t].pc = "seal"
    /\ conc' = Touched(t, Seal(Loaded(t)))
    /\ UNCHANGED <<call, errq, err_out, sealed, wide>>

ConcOpen(t) ==
    /\ conc.frame[t].pc = "open"
    /\ conc' = Touched(t, Open(Loaded(t)))
    /\ UNCHANGED <<call, errq, err_out, sealed, wide>>

ConcHandleErrors(t) ==
    /\ conc.frame[t].pc = "errors"
    /\ conc' = [conc EXCEPT !.frame[t].pc = "drain",
                            !.stderr = Append(@, conc.frame[t].context_message)]
    /\ UNCHANGED <<call, errq, err_out, sealed, wide>>

ConcDrainError(t) ==
    /\ conc.frame[t].pc = "drain"
    /\ conc.errq[t] # <<>>
    /\ conc' = [conc EXCEPT !.errq[t] = Tail(@),
                            !.stderr = Append(@, "- " \o Head(conc.errq[t]))]
    /\ UNCHANGED <<call, errq, err_out, sealed, wide>>

ConcDrainDone(t) ==
    /\ conc.frame[t].pc = "drain"
    /\ conc.errq[t] = <<>>
    /\ conc' = [conc EXCEPT !.frame[t] = AfterErrors(@)]
    /\ UNCHANGED <<call, errq, err_out, sealed, wide>>

ConcCleanup(t) ==
    /\ conc.frame[t].pc = "cleanup"
    /\ conc' = Touched(t, Cleanup(Loaded(t)))
    /\ UNCHANGED <<call, errq, err_out, sealed, wide>>

NextConc ==
    \/ \E t \in Threads : ConcCall(t)
    \/ \E t \in Threads : ConcInit(t)
    \/ \E t \in Threads : ConcSeal(t)
    \/ \E t \in Threads : ConcOpen(t)
    \/ \E t \in Threads : ConcHandleErrors(t)
    \/ \E t \in Threads : ConcDrainError(t)
    \/ \E t \in Threads : ConcDrainDone(t)
    \/ \E t \in Threads : ConcCleanup(t)

SpecConc == Init /\ [][NextConc]_vars

\* ------------------------------------------------- lengths of full width
\* A size_t is 64 bits wide, held as four 16-bit limbs, lowest first; an int
\* is 32 bits wide.  The calls here have valid pointers and a 12-byte nonce,
\* and the library's context initialisation succeeds.
Limb == 65536
WideSpan == 18

\* x + n and x - n for a size_t x and a small n: the 64-bit result and
\* whether it wrapped.
WAdd(x, n) ==
    LET s1 == x[1] + n
        s2 == x[2] + (s1 \div Limb)
        s3 == x[3] + (s2 \div Limb)
        s4 == x[4] + (s3 \div Limb)
    IN  [val |-> <<s1 % Limb, s2 % Limb, s3 % Limb, s4 % Limb>>,
         wrapped |-> s4 >= Limb]

WSub(x, n) ==
    LET d1 == x[1] - n
        d2 == x[2] - (IF d1 < 0 THEN 1 ELSE 0)
        d3 == x[3] - (IF d2 < 0 THEN 1 ELSE 0)
        d4 == x[4] - (IF d3 < 0 THEN 1 ELSE 0)
    IN  [val |-> <<d1 % Limb, d2 % Limb, d3 % Limb, d4 % Limb>>,
         wrapped |-> d4 < 0]

\* x < y for two size_t values.
WLess(x, y) ==
    \E i \in 1..4 : x[i] < y[i] /\ \A j \in (i + 1)..4 : x[j] = y[j]

\* (int)x: the low 32 bits of x read as a two's complement number.
CastInt(x) ==
    IF x[2] >= Limb \div 2 THEN (x[2] - Limb) * Limb + x[1] ELSE x[2] * Limb + x[1]

\* A non-negative int as a size_t.
WideOf(n) == <<n % Limb, n \div Limb, 0, 0>>

\* The longest input the library's AES-GCM takes in one call, 2^36 - 32.
WideLimit == WSub(<<0, 0, 16, 0>>, 32).val

\* Lengths around 0, 2^31, 2^32, the library's limit and, below 0, up to
\* 2^64 - 1.
WideBases == {<<0, 0, 0, 0>>, <<0, Limb \div 2, 0, 0>>, <<0, 0, 1, 0>>, WideLimit}
WideLens ==
    {WAdd(b, k).val : b \in WideBases, k \in 0..WideSpan}
    \cup {WSub(b, k).val : b \in WideBases, k \in 1..WideSpan}

\* Entry with plaintext_len or ciphertext_tag_len = len, up to the call of
\* seal or open.
WideCall ==
    /\ wide.pc = "idle"
    /\ \E op \in {"encrypt", "decrypt"}, len \in WideLens :
          wide' = [op |-> op, len |-> len,
                   max_out_len |-> IF op = "encrypt"
                                   THEN WAdd(len, EVP_AEAD_max_overhead("aes_256_gcm")).val
                                   ELSE len,
                   actual_out_len |-> <<0, 0, 0, 0>>, ok |-> FALSE,
                   pc |-> IF op = "encrypt" THEN "seal" ELSE "open",
                   ret |-> -1]
    /\ UNCHANGED <<call, errq, err_out, sealed, conc>>

\* EVP_AEAD_CTX_seal, which refuses an input whose length plus the tag
\* wraps, is over the limit or does not fit max_out_len, and
\* result_status = (int)actual_out_len.
WideSeal ==
    /\ wide.pc = "seal"
    /\ LET sum == WAdd(wide.len, TAG_LEN)
           ok == /\ ~sum.wrapped
                 /\ ~WLess(WideLimit, wide.len)
                 /\ ~WLess(wide.max_out_len, sum.val)
       IN  wide' = [wide EXCEPT
                        !.ok = ok,
                        !.actual_out_len = IF ok THEN sum.val ELSE <<0, 0, 0, 0>>,
                        !.ret = IF ok THEN CastInt(sum.val) ELSE -1,
                        !.pc = "cleanup"]
    /\ UNCHANGED <<call, errq, err_out, sealed, conc>>

\* EVP_AEAD_CTX_open of an input that verifies if it is long enough to hold
\* a tag and within the limit, and result_status = (int)actual_out_len, or
\* -2 when open fails.
WideOpen ==
    /\ wide.pc = "open"
    /\ LET diff == WSub(wide.len, TAG_LEN)
           ok == /\ ~diff.wrapped
                 /\ ~WLess(WideLimit, diff.val)
       IN  wide' = [wide EXCEPT
                        !.ok = ok,
                        !.actual_out_len = IF ok THEN diff.val ELSE <<0, 0, 0, 0>>,
                        !.ret = IF ok THEN CastInt(diff.val) ELSE -2,
                        !.pc = "cleanup"]
    /\ UNCHANGED <<call, errq, err_out, sealed, conc>>

\* cleanup: return result_status;
WideReturn ==
    /\ wide.pc = "cleanup"
    /\ wide' = [wide EXCEPT !.pc = "returned"]
    /\ UNCHANGED <<call, errq, err_out, sealed, conc>>

WideResume ==
    /\ wide.pc = "returned"
    /\ wide' = NoWide
    /\ UNCHANGED <<call, errq, err_out, sealed, conc>>

NextWide ==
    \/ WideCall
    \/ WideSeal
    \/ WideOpen
    \/ WideReturn
    \/ WideResume

SpecWide == Init /\ [][NextWide]_vars

\* ------------------------------------------------------------ the claims
Returned == call.pc = "returned"
RequiredNull == call.in.null \/ call.key.null \/ call.nonce.null \/ call.out.null
Misuse == RequiredNull \/ call.nonce_len # 12
Count(tr, x) == Cardinality({i \in 1..Len(tr) : tr[i] = x})
Invoked(x) == Count(call.trace, x) > 0

\* The call in progress is a decrypt of a message sealed with the same
\* algorithm, with valid pointers and a 12-byte nonce.
DecryptOfSealed ==
    /\ call.op = "decrypt"
    /\ sealed.valid
    /\ sealed.alg = call.alg
    /\ ~Misuse

\* C1: a call that reached EVP_AEAD_CTX_init has invoked EVP_AEAD_CTX_cleanup
\* exactly once, as its last primitive call, when it returns (whether init
\* failed, seal/open failed, or the call succeeded), and no call returns
\* with its context live.
C1_ContextDestroyed ==
    Returned =>
        /\ call.ctx # "live"
        /\ Invoked("init") =>
              /\ Count(call.trace, "cleanup") = 1
              /\ call.trace[Len(call.trace)] = "cleanup"
              /\ call.ctx \in {"empty", "released"}

C1_Witness ==
    /\ Returned
    /\ call.trace = <<"init", "open", "cleanup">>
    /\ call.context_message = "EVP_AEAD_CTX_open"
    /\ call.ctx = "released"

C3_RoundTrip ==
    /\ sealed.valid => Len(sealed.out) = Len(sealed.plaintext) + 16
    /\ ( /\ Returned
         /\ DecryptOfSealed
         /\ call.engine = "ok"
         /\ call.in.mem = sealed.out
         /\ call.key.mem = sealed.key
         /\ call.nonce.mem = sealed.nonce
         /\ call.aad.mem = sealed.aad )
       => /\ call.ret = Len(sealed.plaintext)
          /\ Prefix(call.out.mem, call.ret) = sealed.plaintext

C3_Witness ==
    /\ Returned
    /\ DecryptOfSealed
    /\ call.in.mem = sealed.out
    /\ sealed.plaintext = Plaintext(2)
    /\ sealed.aad = AadBytes(1)
    /\ call.ret = 2
    /\ call.out.mem = Plaintext(2)

\* Exactly one of ciphertext||tag, key, nonce and AAD handed to the decrypt
\* in progress differs from what was used at encrypt, and in exactly one bit.
OneBitTampered ==
    LET same == <<call.in.mem = sealed.out, call.key.mem = sealed.key,
                  call.nonce.mem = sealed.nonce, call.aad.mem = sealed.aad>>
        flip == <<OneBitApart(sealed.out, call.in.mem),
                  OneBitApart(sealed.key, call.key.mem),
                  OneBitApart(sealed.nonce, call.nonce.mem),
                  OneBitApart(sealed.aad, call.aad.mem)>>
    IN  \E k \in 1..4 : flip[k] /\ \A j \in (1..4) \ {k} : same[j]

\* C4: a decrypt whose ciphertext, tag, nonce, key or AAD differs in one bit
\* from what was used at encrypt never returns a length and leaves no
\* plaintext in the output; with a working engine it returns -2.
C4_TamperDetection ==
    (Returned /\ DecryptOfSealed /\ OneBitTampered) =>
        /\ call.ret \in {-1, -2}
        /\ call.engine = "ok" => call.ret = -2
        /\ call.actual_out_len = 0
        /\ sealed.plaintext # <<>> => call.out.mem # sealed.plaintext

C4_Witness ==
    /\ Returned
    /\ DecryptOfSealed
    /\ call.engine = "ok"
    /\ OneBitApart(sealed.key, call.key.mem)
    /\ call.in.mem = sealed.out
    /\ sealed.plaintext = Plaintext(1)
    /\ call.ret = -2

\* C5: a decrypt of an input shorter than 16 bytes returns -2 without any
\* primitive (init, open, cleanup) having been invoked.
C5_ShortInputGuard ==
    (Returned /\ call.op = "decrypt" /\ ~Misuse /\ call.in_len < 16) =>
        /\ call.ret = -2
        /\ call.trace = <<>>

\* C6: a call of any of the four operations with nonce_len # 12 returns -1,
\* whatever the other arguments are.
C6_NonceLength ==
    (Returned /\ call.nonce_len # 12) => call.ret = -1

C6_Witness ==
    /\ Returned
    /\ call.op = "decrypt"
    /\ call.alg = "aes_256_gcm"
    /\ call.nonce_len = 11
    /\ ~RequiredNull
    /\ call.ret = -1

\* C7: a call rejected for a NULL required pointer or nonce_len # 12 returns
\* -1 with no context initialised and no primitive invoked.
C7_RejectBeforeWork ==
    (Returned /\ Misuse) =>
        /\ call.ret = -1
        /\ call.trace = <<>>
        /\ call.ctx = "uninit"

C7_Witness ==
    /\ Returned
    /\ call.op = "encrypt"
    /\ call.alg = "chacha20_poly1305"
    /\ call.nonce_len = 13
    /\ ~RequiredNull
    /\ call.trace = <<>>

C9_OnlyMisuse ==
    (Returned /\ call.op = "decrypt" /\ call.ret = -1) => Misuse

\* C9 as amended: decrypt returns -1 exactly for caller misuse or a failed
\* context initialisation; a failed open returns -2; no other negative value
\* is returned.
C9_DecryptSentinels ==
    (Returned /\ call.op = "decrypt") =>
        /\ call.ret = -1 <=>
              (Misuse \/ call.context_message = "EVP_AEAD_CTX_init")
        /\ call.context_message = "EVP_AEAD_CTX_open" => call.ret = -2
        /\ call.ret < 0 => call.ret \in {-1, -2}

C9_Witness ==
    /\ Returned
    /\ call.op = "decrypt"
    /\ ~Misuse
    /\ call.context_message = "EVP_AEAD_CTX_init"
    /\ call.ret = -1

\* C10 as stated: whenever a call returns a negative value the output buffer
\* is as it was at call entry.
C10_OutputUntouched ==
    (Returned /\ call.ret < 0) => call.out.mem = call.out_entry.mem

\* C10 as amended: a call that returns a negative value without having
\* invoked seal or open leaves the output buffer as it was; one whose seal
\* or open failed leaves it zeroed, holding no ciphertext or plaintext.
C10_OutputOnFailure ==
    (Returned /\ call.ret < 0) =>
        IF Invoked("seal") \/ Invoked("open")
        THEN call.out.mem = Zeros(Len(call.out.mem))
        ELSE call.out = call.out_entry

C10_Witness ==
    /\ Returned
    /\ call.op = "decrypt"
    /\ call.ret = -2
    /\ Invoked("open")
    /\ Len(call.out.mem) > 0
    /\ call.out.mem # call.out_entry.mem


\* C11: in every interleaving of concurrent calls on disjoint buffers, the
\* context of a call is touched only by the thread that made the call, and
\* each call returns the value, and leaves the output, that it returns and
\* leaves when run alone.
C11_Reentrant ==
    \A t \in Threads :
        /\ conc.ctxmem[t].users \subseteq {t}
        /\ conc.frame[t].pc = "returned" =>
              LET alone == Solo(EntryOf(conc.frame[t]))
              IN  /\ conc.frame[t].ret = alone.ret
                  /\ conc.frame[t].out = alone.out
                  /\ conc.frame[t].trace = alone.trace
                  /\ conc.ctxmem[t].state = alone.ctx

\* Both threads have returned, each having used a context of its own, with
\* the other thread's context live in between.
C11_Witness ==
    /\ \A t \in Threads : conc.frame[t].pc = "returned"
    /\ \A t \in Threads : conc.ctxmem[t] = [state |-> "released", users |-> {t}]
    /\ conc.frame[1].op = "encrypt" /\ conc.frame[1].ret = 17
    /\ conc.frame[2].op = "decrypt" /\ conc.frame[2].ret = -2
    /\ conc.stderr # <<>>


\* Thread t's decrypt has returned after EVP_AEAD_CTX_open rejected an input
\* long enough to hold a tag: the tag did not verify.
TagVerificationFailed(t) ==
    /\ conc.frame[t].pc = "returned"
    /\ conc.frame[t].op = "decrypt"
    /\ conc.frame[t].context_message = "EVP_AEAD_CTX_open"
    /\ conc.frame[t].in_len >= TAG_LEN

\* Where the input of thread t's decrypt differs from the sealed message.
Mismatch(t) ==
    LET f == conc.frame[t]
        s == SealedMessage(f.alg)
    IN  [ct |-> {i \in 1..Len(s.out) : f.in.mem[i] # s.out[i]},
         key |-> f.key.mem # s.key,
         nonce |-> f.nonce.mem # s.nonce,
         aad |-> f.aad.mem # s.aad]

\* C12: two decrypt calls that both fail tag verification, whatever the
\* place of the mismatch, have the same caller-visible outcome: both return
\* -2, the same output buffer is left behind, and it holds no plaintext.
C12_UniformFailure ==
    \A t, u \in Threads :
        TagVerificationFailed(t) /\ TagVerificationFailed(u) =>
            /\ conc.frame[t].ret = -2
            /\ conc.frame[u].ret = -2
            /\ conc.frame[t].out = conc.frame[u].out
            /\ conc.frame[t].out.mem = Zeros(Len(conc.frame[t].out_entry.mem))
            /\ conc.frame[t].trace = conc.frame[u].trace

\* Two decrypts have failed verification, one on a changed ciphertext byte
\* and one on a changed key.
C12_Witness ==
    /\ TagVerificationFailed(1) /\ TagVerificationFailed(2)
    /\ Mismatch(1).ct = {1} /\ ~Mismatch(1).key
    /\ Mismatch(2).ct = {} /\ Mismatch(2).key
    /\ conc.frame[1].ret = -2 /\ conc.frame[2].ret = -2


\* The call as it would run with a non-null pointer to empty associated data.
WithEmptyAad == Solo([EntryOf(call) EXCEPT !.aad = Buf(<<>>)])

\* C13: a call with a NULL associated-data pointer and aad_len = 0 is never
\* rejected for that pointer (it is rejected before the context is set up
\* only for a NULL required pointer or a nonce length other than 12) and it
\* returns, writes and calls the primitives exactly as the same call with a
\* non-null empty associated data does.
C13_NullAadAccepted ==
    Returned /\ call.aad.null /\ call.aad_len = 0 =>
        /\ ~Misuse => Invoked("init")
        /\ call.ret = WithEmptyAad.ret
        /\ call.out = WithEmptyAad.out
        /\ call.trace = WithEmptyAad.trace

\* An encrypt with NULL associated data has succeeded.
C13_Witness ==
    /\ Returned /\ call.op = "encrypt"
    /\ call.aad.null /\ call.aad_len = 0
    /\ call.in_len = 1 /\ call.ret = 1 + TAG_LEN
    /\ call.trace = <<"init", "seal", "cleanup">>


\* C17: a decrypt whose input is shorter than a tag and which also has a
\* NULL required pointer or a nonce length other than 12 returns -1, the
\* earlier checks winning; it returns -2 only when all pointer and nonce
\* checks pass.
C17_MisuseBeforeShortInput ==
    Returned /\ call.op = "decrypt" /\ call.in_len < TAG_LEN =>
        /\ Misuse => call.ret = -1 /\ call.trace = <<>>
        /\ call.ret = -2 => ~RequiredNull /\ call.nonce_len = 12

\* A 15-byte input with an 11-byte nonce has been rejected with -1.
C17_Witness ==
    /\ Returned /\ call.op = "decrypt"
    /\ call.in_len = TAG_LEN - 1 /\ ~RequiredNull /\ call.nonce_len = 11
    /\ call.ret = -1


\* The output capacity the caller is told to provide.
DocumentedCapacity ==
    IF call.op = "encrypt" THEN call.in_len + TAG_LEN ELSE call.in_len - TAG_LEN

\* C18: the max_out_len handed to seal or open is at most the documented
\* output capacity, and with a buffer of exactly that capacity nothing is
\* written past its end.
C18_WriteBound ==
    /\ call.pc \in {"seal", "open"} => call.max_out_len <= DocumentedCapacity
    /\ call.pc # "idle" /\ ~call.out.null
          /\ Len(call.out_entry.mem) = DocumentedCapacity => ~call.out.overrun


\* The arguments of the call as far as control flow sees them, and the
\* outcomes its primitive calls had.
Skeleton ==
    [in_null |-> call.in.null, key_null |-> call.key.null,
     nonce_null |-> call.nonce.null, out_null |-> call.out.null,
     in_len |-> call.in_len, nonce_len |-> call.nonce_len,
     init_ok |-> call.ctx # "empty" /\ call.context_message # "EVP_AEAD_CTX_init",
     op_ok |-> call.context_message \notin {"EVP_AEAD_CTX_seal", "EVP_AEAD_CTX_open"},
     out_len |-> call.actual_out_len]

\* C14: with the same pointer nullness, lengths and primitive outcomes,
\* encrypt_aes_gcm_256 and encrypt_chacha20_poly1305 return the same value
\* after the same primitive calls, which are those of the call made; the
\* same for the two decrypt functions.
C14_SameSkeleton ==
    Returned =>
        LET done == [ret |-> call.ret, calls |-> call.trace]
        IN  IF call.op = "encrypt"
            THEN /\ encrypt_aes_gcm_256_flow(Skeleton) = done
                 /\ encrypt_chacha20_poly1305_flow(Skeleton) = done
            ELSE /\ decrypt_aes_gcm_256_flow(Skeleton) = done
                 /\ decrypt_chacha20_poly1305_flow(Skeleton) = done

\* A ChaCha20-Poly1305 encrypt has returned -1 after a failed seal, as the
\* AES-GCM function does on the same arguments and outcomes.
C14_Witness ==
    /\ Returned /\ call.op = "encrypt" /\ call.alg = "chacha20_poly1305"
    /\ call.trace = <<"init", "seal", "cleanup">> /\ call.ret = -1
    /\ encrypt_aes_gcm_256_flow(Skeleton).ret = -1


\* The function has been entered and has not returned.
InCall == call.pc \in {"init", "seal", "open", "errors", "drain", "cleanup"}

C15_NoWrap ==
    wide.pc = "returned" /\ wide.ok =>
        /\ wide.ret >= 0
        /\ wide.op = "encrypt" => wide.ret > 0
        /\ WideOf(wide.ret) = (IF wide.op = "encrypt"
                               THEN WAdd(wide.len, TAG_LEN).val
                               ELSE WSub(wide.len, TAG_LEN).val)

====
